---- MODULE Spec2Model ----
(***************************************************************************)
(* Secure file upload system: the upload validation pipeline of the three  *)
(* server variants (src/src/server.js), their multer configurations        *)
(* (src/scripts/safe_gen.js, src/src/common_config.js,                     *)
(* src/src/image_multer.js, src/src/pdf_multer.js) and validateFile        *)
(* (src/src/utils/imageCompressor.js).                                     *)
(*                                                                         *)
(* File names are sequences of one-character strings, file contents are a  *)
(* header (sequence of byte values) plus a length in bytes.                *)
(***************************************************************************)
EXTENDS Integers, Sequences, FiniteSets, TLC

VARIABLES pc, req, file, err, storage, response, typeInfo, logs, touched,
          nextUuid, quality, compressedBuffer

vars == <<pc, req, file, err, storage, response, typeInfo, logs, touched,
          nextUuid, quality, compressedBuffer>>

(***************************************************************************)
(* Bounds of the model.                                                    *)
(***************************************************************************)
\* number of requests that may be in flight together
MaxUploads == 2
\* number of dot-separated components of the generated file names
MaxComponents == 3

Uploads == 1..MaxUploads

(***************************************************************************)
(* Characters and strings.                                                 *)
(***************************************************************************)
UpperChars == <<"A","B","C","D","E","F","G","H","I","J","K","L","M",
                "N","O","P","Q","R","S","T","U","V","W","X","Y","Z">>
LowerChars == <<"a","b","c","d","e","f","g","h","i","j","k","l","m",
                "n","o","p","q","r","s","t","u","v","w","x","y","z">>
Digits == {"0","1","2","3","4","5","6","7","8","9"}

\* the lower-case letter of each upper-case letter
LowerOf ==
  [c \in {UpperChars[i] : i \in 1..26} |->
     LowerChars[CHOOSE i \in 1..26 : UpperChars[i] = c]]

\* String.prototype.toLowerCase on one character
ToLowerChar(c) == IF c \in DOMAIN LowerOf THEN LowerOf[c] ELSE c

\* String.prototype.toLowerCase
ToLowerCase(s) == [i \in 1..Len(s) |-> ToLowerChar(s[i])]

\* index of the last "." of s, 0 when there is none
LastDot(s) ==
  IF \E i \in 1..Len(s) : s[i] = "."
  THEN CHOOSE i \in 1..Len(s) : s[i] = "." /\ \A j \in (i+1)..Len(s) : s[j] # "."
  ELSE 0

\* path.extname on a name without directory separators: from the last "."
\* to the end; empty when there is no ".", when the only "." is the first
\* character, and for ".."
ExtName(s) ==
  LET d == LastDot(s) IN
  IF d = 0 \/ d = 1 \/ s = <<".", ".">> THEN <<>> ELSE SubSeq(s, d, Len(s))

(***************************************************************************)
(* DANGEROUS_EXTENSIONS_REGEX                                              *)
(*   /\.(php|php\d|phtml|exe|sh|bash|pl|py|js|jsp|asp|aspx|bat|cmd|vbs|wsf)(\.|$)/i *)
(***************************************************************************)
DangerousTokens ==
  { <<"p","h","p">>, <<"p","h","t","m","l">>, <<"e","x","e">>, <<"s","h">>,
    <<"b","a","s","h">>, <<"p","l">>, <<"p","y">>, <<"j","s">>,
    <<"j","s","p">>, <<"a","s","p">>, <<"a","s","p","x">>, <<"b","a","t">>,
    <<"c","m","d">>, <<"v","b","s">>, <<"w","s","f">> }
  \cup { <<"p","h","p",d>> : d \in Digits }

\* the regex without what follows the alternatives: /\.(php|...)/i
DangerousMatchAt_noBoundary(s, i) ==
  /\ s[i] = "."
  /\ \E tok \in DangerousTokens :
       /\ i + Len(tok) <= Len(s)
       /\ ToLowerCase(SubSeq(s, i + 1, i + Len(tok))) = tok

\* the regex matches at position i: a ".", one of the alternatives
\* (case-insensitively), then a "." or the end of the string
DangerousMatchAt(s, i) ==
  /\ s[i] = "."
  /\ \E tok \in DangerousTokens :
       LET e == i + Len(tok) IN
       /\ e <= Len(s)
       /\ ToLowerCase(SubSeq(s, i + 1, e)) = tok
       /\ (e = Len(s) \/ s[e + 1] = ".")

\* the regex without its "\." alternative after the token: /\.(php|...)$/i
DANGEROUS_EXTENSIONS_REGEX_endOnly(s) ==
  \E i \in 1..Len(s) :
    /\ s[i] = "."
    /\ \E tok \in DangerousTokens :
         /\ i + Len(tok) = Len(s)
         /\ ToLowerCase(SubSeq(s, i + 1, Len(s))) = tok

\* DANGEROUS_EXTENSIONS_REGEX.test(s)
DANGEROUS_EXTENSIONS_REGEX(s) == \E i \in 1..Len(s) : DangerousMatchAt(s, i)

(***************************************************************************)
(* Endpoints of the three server variants and their configurations.        *)
(***************************************************************************)
Ext_pdf  == <<".","p","d","f">>
Ext_jpg  == <<".","j","p","g">>
Ext_jpeg == <<".","j","p","e","g">>
Ext_png  == <<".","p","n","g">>
Ext_webp == <<".","w","e","b","p">>

MIME_PDF  == "application/pdf"
MIME_JPEG == "image/jpeg"
MIME_PNG  == "image/png"
MIME_WEBP == "image/webp"
MIME_GIF  == "image/gif"
MIME_EXE  == "application/x-msdownload"
MIME_TEXT == "text/plain"

MB == 1024 * 1024

\* upload.js: the multer instance of POST /upload (variant 1)
upload ==
  [ allowedExts  |-> {Ext_pdf, Ext_jpg, Ext_jpeg, Ext_png},
    allowedMimes |-> {MIME_PDF, MIME_JPEG, MIME_PNG},
    fileSize     |-> 2 * MB,
    isImage      |-> FALSE,
    extError     |-> "One or more files has an invalid extension. Only PDF, JPG, and PNG are allowed." ]

\* server.js variant 2: const allowedOrigin
allowedOrigin == {MIME_JPEG, MIME_PNG, MIME_WEBP}

\* server.js variant 2: const allowedOriginpdf
allowedOriginpdf == {MIME_PDF}

\* server.js variant 2: createUploadMiddleware({... isImage:true})
imageUpload_v2 ==
  [ allowedExts  |-> {Ext_jpg, Ext_jpeg, Ext_png},
    allowedMimes |-> allowedOrigin,
    fileSize     |-> 3 * MB,
    isImage      |-> TRUE,
    extError     |-> "Invalid file type." ]

\* server.js variant 2: createUploadMiddleware({... isImage:false})
imageUploadpdf ==
  [ allowedExts  |-> {Ext_pdf},
    allowedMimes |-> allowedOriginpdf,
    fileSize     |-> 3 * MB,
    isImage      |-> FALSE,
    extError     |-> "Invalid file type." ]

\* image_multer.js: the multer instance of POST /upload/image (variant 3)
imageUpload ==
  [ allowedExts  |-> {Ext_jpg, Ext_jpeg, Ext_png},
    allowedMimes |-> {MIME_JPEG, MIME_PNG},
    fileSize     |-> 2 * MB,
    isImage      |-> FALSE,
    extError     |-> "Invalid file type. Only JPG, JPEG, and PNG are allowed." ]

\* pdf_multer.js: the multer instance of POST /upload/pdf (variant 3)
pdfUpload ==
  [ allowedExts  |-> {Ext_pdf},
    allowedMimes |-> {MIME_PDF},
    fileSize     |-> 2 * MB,
    isImage      |-> FALSE,
    extError     |-> "Invalid file type. Only PDF is allowed." ]

V1_UPLOAD == "v1 POST /upload"
V2_IMAGE  == "v2 POST /upload/image"
V2_PDF    == "v2 POST /upload/pdf"
V3_IMAGE  == "v3 POST /upload/image"
V3_PDF    == "v3 POST /upload/pdf"

Endpoints == {V1_UPLOAD, V2_IMAGE, V2_PDF, V3_IMAGE, V3_PDF}

\* the multer instance each route uses
Multer(ep) ==
  CASE ep = V1_UPLOAD -> upload
    [] ep = V2_IMAGE  -> imageUpload_v2
    [] ep = V2_PDF    -> imageUploadpdf
    [] ep = V3_IMAGE  -> imageUpload
    [] ep = V3_PDF    -> pdfUpload

\* the list the route hands to the signature check
SignatureAllowed(ep) ==
  CASE ep = V1_UPLOAD -> {MIME_PDF, MIME_JPEG, MIME_PNG}
    [] ep = V2_IMAGE  -> allowedOrigin
    [] ep = V2_PDF    -> allowedOrigin
    [] ep = V3_IMAGE  -> {MIME_JPEG, MIME_PNG}
    [] ep = V3_PDF    -> {MIME_PDF}

\* Uploader('file', 300 * 1024) and Uploaderpdf('file'): 0 is an absent
\* (undefined, falsy) targetSize
TargetSize(ep) == IF ep = V2_IMAGE THEN 300 * 1024 ELSE 0

(***************************************************************************)
(* fileFilter: the callback's error message, or NoError for cb(null, true) *)
(***************************************************************************)
NoError == "<no error>"
ERR_DOUBLE_EXT == "Potential double extension attack detected. Upload rejected."
ERR_MIME       == "Invalid MIME type reported by client."

\* the filter without toLowerCase(): the name is tested as it was sent
fileFilter_caseSensitive(cfg, originalname, mimetype) ==
  LET ext == ExtName(originalname)
  IN  IF ext \notin cfg.allowedExts THEN cfg.extError
      ELSE IF DANGEROUS_EXTENSIONS_REGEX(originalname) THEN ERR_DOUBLE_EXT
      ELSE IF mimetype \notin cfg.allowedMimes THEN ERR_MIME
      ELSE NoError

\* the filter with the declared-MIME check moved to the front
fileFilter_mimeFirst(cfg, originalname, mimetype) ==
  LET originalName == ToLowerCase(originalname)
      ext == ExtName(originalName)
  IN  IF mimetype \notin cfg.allowedMimes THEN ERR_MIME
      ELSE IF ext \notin cfg.allowedExts THEN cfg.extError
      ELSE IF DANGEROUS_EXTENSIONS_REGEX(originalName) THEN ERR_DOUBLE_EXT
      ELSE NoError

\* the filter with the double-extension check moved to the front
fileFilter_regexFirst(cfg, originalname, mimetype) ==
  LET originalName == ToLowerCase(originalname)
      ext == ExtName(originalName)
  IN  IF DANGEROUS_EXTENSIONS_REGEX(originalName) THEN ERR_DOUBLE_EXT
      ELSE IF ext \notin cfg.allowedExts THEN cfg.extError
      ELSE IF mimetype \notin cfg.allowedMimes THEN ERR_MIME
      ELSE NoError

fileFilter(cfg, originalname, mimetype) ==
  LET originalName == ToLowerCase(originalname)
      ext == ExtName(originalName)
  IN  IF ext \notin cfg.allowedExts THEN cfg.extError
      ELSE IF DANGEROUS_EXTENSIONS_REGEX(originalName) THEN ERR_DOUBLE_EXT
      ELSE IF mimetype \notin cfg.allowedMimes THEN ERR_MIME
      ELSE NoError

\* storage.filename without the toLowerCase()
\* a name derived from the original name instead of the random identifier
DiskFilename_fromOriginal(uniqueName, originalname) ==
  [id |-> Len(originalname), ext |-> ToLowerCase(ExtName(originalname))]

DiskFilename_caseKept(uniqueName, originalname) ==
  [id |-> uniqueName, ext |-> ExtName(originalname)]

\* storage.filename: `${uniqueName}${ext}` with the lowercased extname of
\* the original name
DiskFilename(uniqueName, originalname) ==
  [id |-> uniqueName, ext |-> ToLowerCase(ExtName(originalname))]

(***************************************************************************)
(* File contents and the file-type library.                                *)
(***************************************************************************)
\* a file body: its first bytes and its length in bytes
Body(header, length) == [header |-> header, length |-> length]
NoBody == Body(<<>>, 0)

HDR_PDF  == <<37, 80, 68, 70, 45>>
HDR_JPEG == <<255, 216, 255, 224>>
HDR_PNG  == <<137, 80, 78, 71, 13, 10, 26, 10>>
HDR_WEBP == <<82, 73, 70, 70, 0, 0, 0, 0, 87, 69, 66, 80>>
HDR_GIF  == <<71, 73, 70, 56>>
HDR_EXE  == <<77, 90>>
HDR_TEXT == <<84, 104, 105, 115>>

HasBytesAt(h, offset, bytes) ==
  /\ Len(h) >= offset + Len(bytes)
  /\ SubSeq(h, offset + 1, offset + Len(bytes)) = bytes

UNDEFINED == "undefined"

\* fileTypeFromFile: the mime of the format whose magic number the bytes
\* carry, UNDEFINED when no known format matches
\* a detector that keeps its read position between calls: once it has
\* detected a type, a later call finds no signature
fileType_positionKept(h) ==
  IF \E u \in Uploads : typeInfo[u] \in {MIME_JPEG, MIME_PNG, MIME_GIF, MIME_WEBP, MIME_PDF, MIME_EXE}
  THEN UNDEFINED
  ELSE IF HasBytesAt(h, 0, <<255, 216, 255>>) THEN MIME_JPEG
  ELSE IF HasBytesAt(h, 0, <<137, 80, 78, 71, 13, 10, 26, 10>>) THEN MIME_PNG
  ELSE IF HasBytesAt(h, 0, <<71, 73, 70>>) THEN MIME_GIF
  ELSE IF HasBytesAt(h, 8, <<87, 69, 66, 80>>) THEN MIME_WEBP
  ELSE IF HasBytesAt(h, 0, <<37, 80, 68, 70>>) THEN MIME_PDF
  ELSE IF HasBytesAt(h, 0, <<77, 90>>) THEN MIME_EXE
  ELSE UNDEFINED

fileType(h) ==
  IF HasBytesAt(h, 0, <<255, 216, 255>>) THEN MIME_JPEG
  ELSE IF HasBytesAt(h, 0, <<137, 80, 78, 71, 13, 10, 26, 10>>) THEN MIME_PNG
  ELSE IF HasBytesAt(h, 0, <<71, 73, 70>>) THEN MIME_GIF
  ELSE IF HasBytesAt(h, 8, <<87, 69, 66, 80>>) THEN MIME_WEBP
  ELSE IF HasBytesAt(h, 0, <<37, 80, 68, 70>>) THEN MIME_PDF
  ELSE IF HasBytesAt(h, 0, <<77, 90>>) THEN MIME_EXE
  ELSE UNDEFINED

DetectableMimes == {MIME_JPEG, MIME_PNG, MIME_GIF, MIME_WEBP, MIME_PDF, MIME_EXE}

\* sharp(buffer) decodes the image formats only
SharpSupported(h) == fileType(h) \in {MIME_JPEG, MIME_PNG, MIME_GIF, MIME_WEBP}

(***************************************************************************)
(* Error messages.                                                         *)
(***************************************************************************)
ERR_NO_FILE   == "No file uploaded."
ERR_TOO_LARGE == "File too large"
ERR_UNDETERMINED == "Could not determine file signature. Possible fake file."
ERR_SHARP     == "Input buffer contains unsupported image format"
ERR_READ      == "EIO: i/o error, read"
ERR_WRITE     == "ENOSPC: no space left on device, open 'uploads/<uuid>.webp'"
MagicByteError(mime) == "Magic-byte check failed. Detected: " \o mime

\* parseErrorMessage
parseErrorMessage(msg) ==
  IF \E m \in DetectableMimes : msg = MagicByteError(m)
  THEN "File content does not match extension (Magic Byte Mismatch)."
  ELSE IF msg = ERR_UNDETERMINED
  THEN "File content looks suspicious or corrupted."
  ELSE msg

(***************************************************************************)
(* The uploads the clients send.                                           *)
(***************************************************************************)
Name_valid_doc_pdf == <<"v","a","l","i","d","_","d","o","c",".","p","d","f">>
Name_test_fake_pdf == <<"t","e","s","t","_","f","a","k","e",".","p","d","f">>
Name_test_double_php_pdf == <<"t","e","s","t","_","d","o","u","b","l","e",".","p","h","p",".","p","d","f">>
Name_test_blocked_php == <<"t","e","s","t","_","b","l","o","c","k","e","d",".","p","h","p">>
Name_valid_image_jpg == <<"v","a","l","i","d","_","i","m","a","g","e",".","j","p","g">>
Name_PHOTO_JPG == <<"P","H","O","T","O",".","J","P","G">>
Name_scan_pdf == <<"s","c","a","n",".","p","d","f">>
Name_tool_jpg == <<"t","o","o","l",".","j","p","g">>
Name_notes_jpg == <<"n","o","t","e","s",".","j","p","g">>

Payload(name, mime, body) == [originalname |-> name, mimetype |-> mime, body |-> body]

OverTarget == 300 * 1024 + 1
Over2MB    == 2 * MB + 1
Over3MB    == 3 * MB + 1

Payloads ==
  { Payload(Name_valid_doc_pdf,       MIME_PDF,  Body(HDR_PDF, 290)),
    Payload(Name_test_fake_pdf,       MIME_PDF,  Body(HDR_TEXT, 36)),
    Payload(Name_test_double_php_pdf, MIME_PDF,  Body(HDR_TEXT, 55)),
    Payload(Name_test_blocked_php,    MIME_TEXT, Body(HDR_TEXT, 67)),
    Payload(Name_valid_image_jpg,     MIME_JPEG, Body(HDR_JPEG, 12)),
    Payload(Name_PHOTO_JPG,           MIME_JPEG, Body(HDR_JPEG, OverTarget)),
    Payload(Name_scan_pdf,            MIME_PDF,  Body(HDR_PNG, 290)),
    Payload(Name_valid_image_jpg,     MIME_JPEG, Body(HDR_PNG, 290)),
    Payload(Name_valid_doc_pdf,       MIME_TEXT, Body(HDR_PDF, 290)),
    Payload(Name_valid_doc_pdf,       MIME_PDF,  Body(HDR_PDF, Over2MB)),
    Payload(Name_tool_jpg,            MIME_JPEG, Body(HDR_EXE, 290)),
    Payload(Name_PHOTO_JPG,           MIME_JPEG, Body(HDR_JPEG, Over3MB)),
    Payload(Name_notes_jpg,           MIME_JPEG, Body(HDR_TEXT, OverTarget)) }

\* lengths sharp may produce for a transcoded image
CompressedLengths == {100 * 1024, 400 * 1024}

(***************************************************************************)
(* State.                                                                  *)
(*   pc[u]        position of request u in its handler                     *)
(*   req[u]       the multipart request: route, file part                  *)
(*   file[u]      req.file                                                 *)
(*   err[u]       the error handed to the callback / validationError       *)
(*   storage      the uploads directory: stored name -> body               *)
(*   response[u]  the response sent, status 0 while none was sent          *)
(*   typeInfo[u]  what the signature check saw for u                       *)
(*   logs[u]      console output of u                                      *)
(*   touched[u]   the storage operations u performed                       *)
(*   nextUuid     the next value uuidv4() hands out                        *)
(*   quality[u], compressedBuffer[u]  locals of the compression loop       *)
(***************************************************************************)
NoName == [id |-> 0, ext |-> <<>>]
NoReq  == [endpoint |-> "none", hasFile |-> FALSE, originalname |-> <<>>,
           mimetype |-> "", body |-> NoBody]
NoFile == [present |-> FALSE, filename |-> NoName, size |-> 0, buffer |-> NoBody]
NoResponse == [status |-> 0, error |-> "", filename |-> NoName,
               detectedType |-> "", size |-> 0]
NOT_RUN    == "<not run>"
READ_ERROR == "<read error>"

Init ==
  /\ pc = [u \in Uploads |-> "idle"]
  /\ req = [u \in Uploads |-> NoReq]
  /\ file = [u \in Uploads |-> NoFile]
  /\ err = [u \in Uploads |-> NoError]
  /\ storage = <<>>
  /\ response = [u \in Uploads |-> NoResponse]
  /\ typeInfo = [u \in Uploads |-> NOT_RUN]
  /\ logs = [u \in Uploads |-> {}]
  /\ touched = [u \in Uploads |-> {}]
  /\ nextUuid = 1
  /\ quality = [u \in Uploads |-> 0]
  /\ compressedBuffer = [u \in Uploads |-> NoBody]

\* fs: create or replace a file
WriteTo(st, name, body) ==
  [n \in DOMAIN st \cup {name} |-> IF n = name THEN body ELSE st[n]]

\* a removal by pattern: every file with the extension of name goes
RemoveFrom_sameExt(st, name) ==
  [n \in { x \in DOMAIN st : x.ext # name.ext } |-> st[n]]

\* fs: remove a file
RemoveFrom(st, name) == [n \in DOMAIN st \ {name} |-> st[n]]

Op(op, name, ok) == [op |-> op, name |-> name, ok |-> ok]

\* res.status(400).json({ error })
Reject(u, msg) ==
  /\ response' = [response EXCEPT ![u] =
        [status |-> 400, error |-> msg, filename |-> NoName,
         detectedType |-> "", size |-> 0]]
  /\ pc' = [pc EXCEPT ![u] = "done"]

\* res.status(200).json({ message, filename, detectedType, size })
\* an answer sent before the check of the stored bytes has run
Accept_beforeValidation(u, filename, detectedType, size) ==
  /\ response' = [response EXCEPT ![u] =
        [status |-> 200, error |-> "", filename |-> filename,
         detectedType |-> detectedType, size |-> size]]
  /\ pc' = [pc EXCEPT ![u] = "fileTypeFromFile"]

Accept(u, filename, detectedType, size) ==
  /\ response' = [response EXCEPT ![u] =
        [status |-> 200, error |-> "", filename |-> filename,
         detectedType |-> detectedType, size |-> size]]
  /\ pc' = [pc EXCEPT ![u] = "done"]

\* a multipart request reaches a route; multer starts parsing it
Request(u) ==
  /\ pc[u] = "idle"
  /\ \E ep \in Endpoints :
       \/ \E p \in Payloads :
            /\ req' = [req EXCEPT ![u] =
                 [endpoint |-> ep, hasFile |-> TRUE, originalname |-> p.originalname,
                  mimetype |-> p.mimetype, body |-> p.body]]
            /\ pc' = [pc EXCEPT ![u] = "fileFilter"]
       \/ /\ req' = [req EXCEPT ![u] = [NoReq EXCEPT !.endpoint = ep]]
          /\ pc' = [pc EXCEPT ![u] = "callback"]
  /\ UNCHANGED <<file, err, storage, response, typeInfo, logs, touched,
                 nextUuid, quality, compressedBuffer>>

\* multer storing the file part before it asks the fileFilter
MulterFileFilter_storeFirst(u) ==
  /\ pc[u] = "fileFilter"
  /\ LET e == fileFilter(Multer(req[u].endpoint), req[u].originalname, req[u].mimetype)
         name == [id |-> nextUuid, ext |-> ExtName(req[u].originalname)]
     IN  /\ err' = [err EXCEPT ![u] = e]
         /\ storage' = [n \in DOMAIN storage \cup {name} |->
                          IF n = name THEN req[u].body ELSE storage[n]]
         /\ touched' = [touched EXCEPT ![u] =
                          @ \cup {[op |-> "write", name |-> name, ok |-> TRUE]}]
         /\ nextUuid' = nextUuid + 1
         /\ pc' = [pc EXCEPT ![u] = IF e = NoError THEN "handleFile" ELSE "callback"]
  /\ UNCHANGED <<req, file, response, typeInfo, logs, quality, compressedBuffer>>

\* multer runs the route's fileFilter on the file part before storing it
MulterFileFilter(u) ==
  /\ pc[u] = "fileFilter"
  /\ LET e == fileFilter(Multer(req[u].endpoint), req[u].originalname, req[u].mimetype)
     IN  /\ err' = [err EXCEPT ![u] = e]
         /\ pc' = [pc EXCEPT ![u] = IF e = NoError THEN "handleFile" ELSE "callback"]
  /\ UNCHANGED <<req, file, storage, response, typeInfo, logs, touched,
                 nextUuid, quality, compressedBuffer>>

\* a stream that is not cut: the whole part reaches the storage engine
Truncate_none(body, limit) == body

\* the bytes busboy lets through: the stream is cut at limits.fileSize
Truncate(body, limit) ==
  IF body.length > limit THEN Body(body.header, limit) ELSE body

\* multer stores the file part: memoryStorage keeps it in req.file.buffer,
\* diskStorage writes it under destination/filename; a part longer than
\* limits.fileSize is cut and the upload aborted
MulterHandleFile(u) ==
  /\ pc[u] = "handleFile"
  /\ LET cfg == Multer(req[u].endpoint)
         tooLarge == req[u].body.length > cfg.fileSize
         name == DiskFilename(nextUuid, req[u].originalname)
         stored == Truncate(req[u].body, cfg.fileSize)
     IN  IF cfg.isImage
         THEN /\ file' = [file EXCEPT ![u] =
                   IF tooLarge THEN NoFile
                   ELSE [present |-> TRUE, filename |-> NoName,
                         size |-> stored.length, buffer |-> stored]]
              /\ err' = [err EXCEPT ![u] = IF tooLarge THEN ERR_TOO_LARGE ELSE NoError]
              /\ pc' = [pc EXCEPT ![u] = "callback"]
              /\ UNCHANGED <<storage, touched, nextUuid>>
         ELSE /\ storage' = WriteTo(storage, name, stored)
              /\ touched' = [touched EXCEPT ![u] = @ \cup {Op("write", name, TRUE)}]
              /\ nextUuid' = nextUuid + 1
              /\ file' = [file EXCEPT ![u] =
                   [present |-> ~tooLarge, filename |-> name,
                    size |-> stored.length, buffer |-> NoBody]]
              /\ pc' = [pc EXCEPT ![u] = IF tooLarge THEN "abort" ELSE "callback"]
              /\ UNCHANGED err
  /\ UNCHANGED <<req, response, typeInfo, logs, quality, compressedBuffer>>

\* an abort that leaves the truncated file where it was written
MulterAbort_noRemove(u) ==
  /\ pc[u] = "abort"
  /\ err' = [err EXCEPT ![u] = ERR_TOO_LARGE]
  /\ file' = [file EXCEPT ![u] = NoFile]
  /\ pc' = [pc EXCEPT ![u] = "callback"]
  /\ UNCHANGED <<req, storage, touched, response, typeInfo, logs, nextUuid,
                 quality, compressedBuffer>>

\* multer aborts an upload over the size limit: it removes the file it
\* stored and hands LIMIT_FILE_SIZE to the callback
MulterAbort(u) ==
  /\ pc[u] = "abort"
  /\ \E ok \in BOOLEAN :
       /\ storage' = IF ok THEN RemoveFrom(storage, file[u].filename) ELSE storage
       /\ touched' = [touched EXCEPT ![u] = @ \cup {Op("unlink", file[u].filename, ok)}]
  /\ err' = [err EXCEPT ![u] = ERR_TOO_LARGE]
  /\ file' = [file EXCEPT ![u] = NoFile]
  /\ pc' = [pc EXCEPT ![u] = "callback"]
  /\ UNCHANGED <<req, response, typeInfo, logs, nextUuid, quality, compressedBuffer>>

Log(u, entries) == logs' = [logs EXCEPT ![u] = @ \cup entries]

\* console.error in the catch around fs.unlink: 'Failed to delete invalid
\* file:' (POST /upload), 'Error deleting file:' (validateFile), the bare
\* unlinkErr (handleUpload)
UnlinkFailureLog(ep) ==
  CASE ep = V1_UPLOAD -> "Failed to delete invalid file:"
    [] ep = V2_IMAGE  -> "Error deleting file:"
    [] OTHER          -> "unlinkErr"

\* console.error on entry of the catch block of the signature check
ValidationFailedLog(ep) ==
  IF ep = V2_IMAGE THEN "Validation failed:" ELSE "Security Validation Failed:"

\* variant 1, POST /upload: the callback given to upload.single('file')
UploadCallback(u) ==
  /\ pc[u] = "callback"
  /\ req[u].endpoint = V1_UPLOAD
  /\ IF err[u] # NoError
     THEN /\ Log(u, {"Upload blocked:"})
          /\ Reject(u, err[u])
     ELSE IF ~file[u].present
     THEN /\ Reject(u, ERR_NO_FILE)
          /\ UNCHANGED logs
     ELSE /\ pc' = [pc EXCEPT ![u] = "fileTypeFromFile"]
          /\ UNCHANGED <<response, logs>>
  /\ UNCHANGED <<req, file, err, storage, typeInfo, touched, nextUuid,
                 quality, compressedBuffer>>

\* the callback without its `if (!req.file)` branch
HandleUploadCallback_noFileCheck(u) ==
  /\ pc[u] = "callback"
  /\ req[u].endpoint \in {V3_IMAGE, V3_PDF}
  /\ IF err[u] # NoError
     THEN Reject(u, err[u])
     ELSE /\ pc' = [pc EXCEPT ![u] = "fileTypeFromFile"]
          /\ UNCHANGED response
  /\ UNCHANGED <<req, file, err, storage, typeInfo, logs, touched, nextUuid,
                 quality, compressedBuffer>>

\* variant 3, POST /upload/image and POST /upload/pdf: the callback given
\* to single('file'), which calls handleUpload up to its first await
HandleUploadCallback(u) ==
  /\ pc[u] = "callback"
  /\ req[u].endpoint \in {V3_IMAGE, V3_PDF}
  /\ IF err[u] # NoError
     THEN Reject(u, err[u])
     ELSE IF ~file[u].present
     THEN Reject(u, ERR_NO_FILE)
     ELSE /\ pc' = [pc EXCEPT ![u] = "fileTypeFromFile"]
          /\ UNCHANGED response
  /\ UNCHANGED <<req, file, err, storage, typeInfo, logs, touched, nextUuid,
                 quality, compressedBuffer>>

\* the loop condition with the bound `quality > 0`
MustCompress_untilZero(buffer, q, targetSize) == buffer.length > targetSize /\ q > 0

\* the while condition of the compression loop
MustCompress(buffer, q, targetSize) == buffer.length > targetSize /\ q > 10

\* variant 2, Uploader('file', 300 * 1024): the callback given to
\* imageUpload.single(field), up to its first await; next(err) reaches the
\* error handling middleware
Uploader(u) ==
  /\ pc[u] = "callback"
  /\ req[u].endpoint = V2_IMAGE
  /\ IF err[u] # NoError
     THEN /\ Log(u, {"Error:"})
          /\ Reject(u, err[u])
          /\ UNCHANGED <<quality, compressedBuffer>>
     ELSE IF ~file[u].present
     THEN /\ Log(u, {"Error:"})
          /\ Reject(u, ERR_NO_FILE)
          /\ UNCHANGED <<quality, compressedBuffer>>
     ELSE /\ compressedBuffer' = [compressedBuffer EXCEPT ![u] = file[u].buffer]
          /\ quality' = [quality EXCEPT ![u] = 80]
          /\ pc' = [pc EXCEPT ![u] =
               IF MustCompress(file[u].buffer, 80, TargetSize(V2_IMAGE))
               THEN "sharp" ELSE "writeFile"]
          /\ UNCHANGED <<response, logs>>
  /\ UNCHANGED <<req, file, err, storage, typeInfo, touched, nextUuid>>

\* variant 2, Uploaderpdf('file'): targetSize is undefined, so the callback
\* goes straight to next() and the route answers
Uploaderpdf(u) ==
  /\ pc[u] = "callback"
  /\ req[u].endpoint = V2_PDF
  /\ IF err[u] # NoError
     THEN /\ Log(u, {"Error:"})
          /\ Reject(u, err[u])
     ELSE IF ~file[u].present
     THEN /\ Log(u, {"Error:"})
          /\ Reject(u, ERR_NO_FILE)
     ELSE /\ Accept(u, file[u].filename, MIME_WEBP, file[u].size)
          /\ UNCHANGED logs
  /\ UNCHANGED <<req, file, err, storage, typeInfo, touched, nextUuid,
                 quality, compressedBuffer>>

\* one pass of the compression loop: sharp(req.file.buffer).webp({ quality })
\* re-encodes the uploaded buffer, or throws on bytes it cannot decode
Sharp(u) ==
  /\ pc[u] = "sharp"
  /\ IF ~SharpSupported(file[u].buffer.header)
     THEN /\ err' = [err EXCEPT ![u] = ERR_SHARP]
          /\ Log(u, {"Error:"})
          /\ Reject(u, ERR_SHARP)
          /\ UNCHANGED <<quality, compressedBuffer>>
     ELSE \E len \in CompressedLengths :
          /\ compressedBuffer' = [compressedBuffer EXCEPT ![u] = Body(HDR_WEBP, len)]
          /\ quality' = [quality EXCEPT ![u] = @ - 10]
          /\ pc' = [pc EXCEPT ![u] =
               IF MustCompress(Body(HDR_WEBP, len), quality[u] - 10, TargetSize(V2_IMAGE))
               THEN "sharp" ELSE "writeFile"]
          /\ UNCHANGED <<err, response, logs>>
  /\ UNCHANGED <<req, file, storage, typeInfo, touched, nextUuid>>

\* variant 2: fs.writeFile of the compressed buffer under `${uuidv4()}.webp`
\* and the update of req.file; a failed write is caught and handed to next
WriteFile(u) ==
  /\ pc[u] = "writeFile"
  /\ LET name == [id |-> nextUuid, ext |-> Ext_webp] IN
     /\ nextUuid' = nextUuid + 1
     /\ \/ /\ storage' = WriteTo(storage, name, compressedBuffer[u])
           /\ touched' = [touched EXCEPT ![u] = @ \cup {Op("write", name, TRUE)}]
           /\ file' = [file EXCEPT ![u].filename = name,
                                   ![u].size = compressedBuffer[u].length]
           /\ pc' = [pc EXCEPT ![u] = "fileTypeFromFile"]
           /\ UNCHANGED <<err, response, logs>>
        \/ /\ touched' = [touched EXCEPT ![u] = @ \cup {Op("write", name, FALSE)}]
           /\ err' = [err EXCEPT ![u] = ERR_WRITE]
           /\ Log(u, {"Error:"})
           /\ Reject(u, ERR_WRITE)
           /\ UNCHANGED <<storage, file>>
  /\ UNCHANGED <<req, typeInfo, quality, compressedBuffer>>

\* the checks without the allowlist test
validate_anyKnownType(detected, allowedMimes) ==
  IF detected = UNDEFINED THEN ERR_UNDETERMINED ELSE NoError

\* the checks made on the result of fileTypeFromFile: the message of the
\* error thrown, NoError when the detected type is allowed
validate(detected, allowedMimes) ==
  IF detected = UNDEFINED THEN ERR_UNDETERMINED
  ELSE IF detected \notin allowedMimes THEN MagicByteError(detected)
  ELSE NoError

\* the detectedType field of the accepted response
DetectedTypeReported(ep, detected) ==
  IF ep = V2_IMAGE THEN MIME_WEBP ELSE detected

\* the check answering 400 as soon as it fails, the fs.unlink still to come
FileTypeFromFile_respondFirst(u) ==
  /\ pc[u] = "fileTypeFromFile"
  /\ LET ep == req[u].endpoint
         name == file[u].filename
         detected == IF name \in DOMAIN storage
                     THEN fileType(storage[name].header) ELSE READ_ERROR
         e == IF detected = READ_ERROR THEN ERR_READ
              ELSE validate(detected, SignatureAllowed(ep))
     IN  /\ typeInfo' = [typeInfo EXCEPT ![u] = detected]
         /\ err' = [err EXCEPT ![u] = e]
         /\ IF e = NoError
            THEN /\ Log(u, {"Valid file uploaded:"})
                 /\ Accept(u, name, DetectedTypeReported(ep, detected), file[u].size)
            ELSE /\ Log(u, {ValidationFailedLog(ep)})
                 /\ response' = [response EXCEPT ![u] =
                       [status |-> 400, error |-> e, filename |-> NoName,
                        detectedType |-> "", size |-> 0]]
                 /\ pc' = [pc EXCEPT ![u] = "unlink"]
  /\ UNCHANGED <<req, file, storage, touched, nextUuid, quality, compressedBuffer>>

\* await fileTypeFromFile(filePath) and the code after it, up to the
\* accepted response or to the await of fs.unlink: the inline check of
\* POST /upload, handleUpload, and validateFile called by Uploader
FileTypeFromFile(u) ==
  /\ pc[u] = "fileTypeFromFile"
  /\ LET ep == req[u].endpoint
         name == file[u].filename
     IN  \/ /\ name \in DOMAIN storage
            /\ LET detected == fileType(storage[name].header)
                   e == validate(detected, SignatureAllowed(ep))
               IN  /\ typeInfo' = [typeInfo EXCEPT ![u] = detected]
                   /\ err' = [err EXCEPT ![u] = e]
                   /\ IF e = NoError
                      THEN /\ Log(u, {IF ep = V2_IMAGE THEN "Valid file:"
                                                       ELSE "Valid file uploaded:"})
                           /\ Accept(u, name, DetectedTypeReported(ep, detected), file[u].size)
                      ELSE /\ Log(u, {ValidationFailedLog(ep)})
                           /\ pc' = [pc EXCEPT ![u] = "unlink"]
                           /\ UNCHANGED response
         \/ /\ typeInfo' = [typeInfo EXCEPT ![u] = READ_ERROR]
            /\ err' = [err EXCEPT ![u] = ERR_READ]
            /\ Log(u, {ValidationFailedLog(ep)})
            /\ pc' = [pc EXCEPT ![u] = "unlink"]
            /\ UNCHANGED response
  /\ UNCHANGED <<req, file, storage, touched, nextUuid, quality, compressedBuffer>>

\* the error text of the 400 response after a failed validation
ValidationFailureBody(ep, msg) ==
  CASE ep = V1_UPLOAD -> parseErrorMessage(msg)
    [] ep \in {V3_IMAGE, V3_PDF} -> "Security validation failed: " \o msg
    [] OTHER -> msg

\* the catch block without its fs.unlink: the response alone
Unlink_noDelete(u) ==
  /\ pc[u] = "unlink"
  /\ Reject(u, ValidationFailureBody(req[u].endpoint, err[u]))
  /\ UNCHANGED <<req, file, err, storage, typeInfo, logs, touched, nextUuid,
                 quality, compressedBuffer>>

\* the catch block with an empty catch around fs.unlink: nothing logged
Unlink_silent(u) ==
  /\ pc[u] = "unlink"
  /\ \E ok \in BOOLEAN :
       /\ storage' = IF ok THEN RemoveFrom(storage, file[u].filename) ELSE storage
       /\ touched' = [touched EXCEPT ![u] = @ \cup {Op("unlink", file[u].filename, ok)}]
  /\ Reject(u, ValidationFailureBody(req[u].endpoint, err[u]))
  /\ UNCHANGED <<req, file, err, typeInfo, logs, nextUuid, quality, compressedBuffer>>

\* await fs.unlink(filePath) in the catch block, its own try/catch, and
\* the 400 response (validateFile rethrows to Uploader, which calls next)
Unlink(u) ==
  /\ pc[u] = "unlink"
  /\ \E ok \in BOOLEAN :
       /\ storage' = IF ok THEN RemoveFrom(storage, file[u].filename) ELSE storage
       /\ touched' = [touched EXCEPT ![u] = @ \cup {Op("unlink", file[u].filename, ok)}]
       /\ Log(u, (IF ok THEN (IF req[u].endpoint = V1_UPLOAD
                               THEN {"Malicious/Invalid file deleted."} ELSE {})
                  ELSE {UnlinkFailureLog(req[u].endpoint)})
                 \cup (IF req[u].endpoint = V2_IMAGE THEN {"Error:"} ELSE {}))
  /\ Reject(u, ValidationFailureBody(req[u].endpoint, err[u]))
  /\ UNCHANGED <<req, file, err, typeInfo, nextUuid, quality, compressedBuffer>>

Next ==
  \E u \in Uploads :
    \/ Request(u)
    \/ MulterFileFilter(u)
    \/ MulterHandleFile(u)
    \/ MulterAbort(u)
    \/ UploadCallback(u)
    \/ HandleUploadCallback(u)
    \/ Uploader(u)
    \/ Uploaderpdf(u)
    \/ Sharp(u)
    \/ WriteFile(u)
    \/ FileTypeFromFile(u)
    \/ Unlink(u)

Spec == Init /\ [][Next]_vars

\* the steps of request u after its arrival: multer's stages and the
\* handler's continuations, each run by the event loop once its I/O is done
Step(u) ==
  \/ MulterFileFilter(u)
  \/ MulterHandleFile(u)
  \/ MulterAbort(u)
  \/ UploadCallback(u)
  \/ HandleUploadCallback(u)
  \/ Uploader(u)
  \/ Uploaderpdf(u)
  \/ Sharp(u)
  \/ WriteFile(u)
  \/ FileTypeFromFile(u)
  \/ Unlink(u)

\* one request in flight, whose every pending I/O operation completes and
\* whose continuation then runs: the event loop leaves no ready callback
\* waiting forever
LiveNext == Request(1) \/ Step(1)

LiveSpec == Init /\ [][LiveNext]_vars /\ WF_vars(Step(1))

(***************************************************************************)
(* The file filter alone, on generated file names: every name of up to     *)
(* MaxComponents components joined by dots, on every route, with every     *)
(* declared type.                                                          *)
(***************************************************************************)
Components ==
  { <<"x">>,
    <<"p","h","p">>,
    <<"p","h","p","5">>,
    <<"p","h","p","5","5">>,
    <<"m","y","p","h","p">>,
    <<"p","d","f">>,
    <<"P","D","F">>,
    <<"j","p","g">>,
    <<"S","h">>,
    <<>> }

RECURSIVE Join(_)
Join(cs) == IF Len(cs) = 1 THEN cs[1] ELSE cs[1] \o <<".">> \o Join(Tail(cs))

GenNames ==
  { n \in UNION { { Join(cs) : cs \in [1..k -> Components] } : k \in 1..MaxComponents } :
      Len(n) > 0 }

DeclaredMimes == {MIME_PDF, MIME_JPEG, MIME_TEXT}

FilterInit ==
  /\ \E ep \in Endpoints, n \in GenNames, m \in DeclaredMimes :
       req = [u \in Uploads |->
                IF u = 1
                THEN [endpoint |-> ep, hasFile |-> TRUE, originalname |-> n,
                      mimetype |-> m, body |-> Body(HDR_TEXT, 36)]
                ELSE NoReq]
  /\ pc = [u \in Uploads |-> IF u = 1 THEN "fileFilter" ELSE "idle"]
  /\ file = [u \in Uploads |-> NoFile]
  /\ err = [u \in Uploads |-> NoError]
  /\ storage = <<>>
  /\ response = [u \in Uploads |-> NoResponse]
  /\ typeInfo = [u \in Uploads |-> NOT_RUN]
  /\ logs = [u \in Uploads |-> {}]
  /\ touched = [u \in Uploads |-> {}]
  /\ nextUuid = 1
  /\ quality = [u \in Uploads |-> 0]
  /\ compressedBuffer = [u \in Uploads |-> NoBody]

FilterNext == MulterFileFilter(1)

SpecFilter == FilterInit /\ [][FilterNext]_vars

(***************************************************************************)
(* The signature check run twice on one staged file: the first run is the  *)
(* handler's, the second is the same code started again on the same path   *)
(* once the first has answered.                                            *)
(***************************************************************************)
FirstRun  == 1
SecondRun == 2

\* the routes whose handler runs the signature check
VerifyingRoutes == Endpoints \ {V2_PDF}

\* the files a route can have staged when its check starts: what multer
\* wrote for a payload that passed the filter and the size limit, or, on
\* the compressing route, what Uploader wrote
StagedBodies(ep, p) ==
  IF ep # V2_IMAGE THEN {p.body}
  ELSE IF p.body.length > TargetSize(ep)
       THEN IF SharpSupported(p.body.header)
            THEN { Body(HDR_WEBP, len) : len \in CompressedLengths }
            ELSE {}
       ELSE {p.body}

StagedName(ep, p) ==
  IF ep = V2_IMAGE THEN [id |-> 1, ext |-> Ext_webp]
  ELSE DiskFilename(1, p.originalname)

RerunInit ==
  /\ pc = [u \in Uploads |-> IF u = FirstRun THEN "fileTypeFromFile" ELSE "idle"]
  /\ err = [u \in Uploads |-> NoError]
  /\ response = [u \in Uploads |-> NoResponse]
  /\ typeInfo = [u \in Uploads |-> NOT_RUN]
  /\ logs = [u \in Uploads |-> {}]
  /\ nextUuid = 2
  /\ quality = [u \in Uploads |-> 0]
  /\ \E ep \in VerifyingRoutes, p \in Payloads :
       /\ fileFilter(Multer(ep), p.originalname, p.mimetype) = NoError
       /\ p.body.length <= Multer(ep).fileSize
       /\ \E b \in StagedBodies(ep, p) :
            LET name == StagedName(ep, p)
                r == [endpoint |-> ep, hasFile |-> TRUE,
                      originalname |-> p.originalname,
                      mimetype |-> p.mimetype, body |-> p.body]
                f == [present |-> TRUE, filename |-> name, size |-> b.length,
                      buffer |-> NoBody]
            IN  /\ req = [u \in Uploads |->
                           IF u \in {FirstRun, SecondRun} THEN r ELSE NoReq]
                /\ file = [u \in Uploads |->
                           IF u \in {FirstRun, SecondRun} THEN f ELSE NoFile]
                /\ storage = WriteTo(<<>>, name, b)
                /\ touched = [u \in Uploads |->
                           IF u = FirstRun THEN {Op("write", name, TRUE)} ELSE {}]
                /\ compressedBuffer = [u \in Uploads |->
                           IF ep = V2_IMAGE /\ u = FirstRun THEN b ELSE NoBody]

\* the check is started again on the path of the first run
Rerun ==
  /\ pc[FirstRun] = "done"
  /\ pc[SecondRun] = "idle"
  /\ pc' = [pc EXCEPT ![SecondRun] = "fileTypeFromFile"]
  /\ UNCHANGED <<req, file, err, storage, response, typeInfo, logs, touched,
                 nextUuid, quality, compressedBuffer>>

RerunNext ==
  \/ Rerun
  \/ \E u \in {FirstRun, SecondRun} : FileTypeFromFile(u) \/ Unlink(u)

SpecRerun == RerunInit /\ [][RerunNext]_vars

(***************************************************************************)
(* Vocabulary of the properties.                                           *)
(***************************************************************************)
\* the rejection category a message stands for
Category(msg) ==
  IF msg \in {Multer(ep).extError : ep \in Endpoints} THEN "invalid-extension"
  ELSE IF msg = ERR_DOUBLE_EXT THEN "double-extension"
  ELSE IF msg = ERR_MIME THEN "invalid-declared-type"
  ELSE IF msg = ERR_TOO_LARGE THEN "size-exceeded"
  ELSE "other"

\* the file filter has decided on the file part of u
FilterDecided(u) == req[u].hasFile /\ pc[u] \notin {"idle", "fileFilter"}

EndsWith(s, suffix) ==
  /\ Len(s) >= Len(suffix)
  /\ SubSeq(s, Len(s) - Len(suffix) + 1, Len(s)) = suffix

\* the name, read case-insensitively, ends in an extension of the list
FinalExtensionIn(name, exts) == \E e \in exts : EndsWith(ToLowerCase(name), e)

\* somewhere before position last the name holds ".token."
EmbeddedDangerousBefore(name, last) ==
  \E i \in 1..Len(name), tok \in DangerousTokens :
    /\ i + Len(tok) + 1 <= last
    /\ ToLowerCase(SubSeq(name, i, i + Len(tok) + 1)) = <<".">> \o tok \o <<".">>

\* the name ends in an allowed extension and holds ".token." before it,
\* the second dot being at most the dot of that extension
DoubleExtensionName(name, exts) ==
  \E e \in exts :
    /\ EndsWith(ToLowerCase(name), e)
    /\ EmbeddedDangerousBefore(name, Len(name) - Len(e) + 1)

(***************************************************************************)
(* C4: a file name that ends in an allowed extension and holds, before it, *)
(* a dot, a dangerous extension token and a dot is rejected by the file    *)
(* filter with the double-extension reason, whatever the declared type.    *)
(***************************************************************************)
C4_DoubleExtensionRejected ==
  \A u \in Uploads :
    (FilterDecided(u) /\ DoubleExtensionName(req[u].originalname,
                                             Multer(req[u].endpoint).allowedExts))
      => /\ Category(err[u]) = "double-extension"
         /\ pc[u] = "callback"

\* x.php.pdf, declared text/plain, was rejected as a double extension
C4_Witness ==
  \E u \in Uploads :
    /\ FilterDecided(u)
    /\ req[u].originalname = <<"x",".","p","h","p",".","p","d","f">>
    /\ req[u].mimetype = MIME_TEXT
    /\ req[u].endpoint = V3_PDF
    /\ err[u] = ERR_DOUBLE_EXT

(***************************************************************************)
(* C5: a file name whose final extension is not in the route's allowlist   *)
(* is rejected by the file filter with the extension-not-allowed reason,   *)
(* whatever the declared type.                                             *)
(***************************************************************************)
C5_ExtensionNotAllowedRejected ==
  \A u \in Uploads :
    (FilterDecided(u) /\ ~FinalExtensionIn(req[u].originalname,
                                           Multer(req[u].endpoint).allowedExts))
      => /\ err[u] = Multer(req[u].endpoint).extError
         /\ Category(err[u]) = "invalid-extension"
         /\ pc[u] = "callback"

\* x.x, declared application/pdf (an allowed type), was rejected for its
\* extension on the PDF route
C5_Witness ==
  \E u \in Uploads :
    /\ FilterDecided(u)
    /\ req[u].originalname = <<"x",".","x">>
    /\ req[u].mimetype = MIME_PDF
    /\ req[u].endpoint = V3_PDF
    /\ Category(err[u]) = "invalid-extension"

(***************************************************************************)
(* C6: as claimed, a file name with both a final extension outside the     *)
(* allowlist and a dangerous extension token is reported as a double       *)
(* extension.                                                              *)
(***************************************************************************)
C6_Original_DoubleExtensionTakesPrecedence ==
  \A u \in Uploads :
    (/\ FilterDecided(u)
     /\ ~FinalExtensionIn(req[u].originalname, Multer(req[u].endpoint).allowedExts)
     /\ DANGEROUS_EXTENSIONS_REGEX(ToLowerCase(req[u].originalname)))
      => Category(err[u]) = "double-extension"

(***************************************************************************)
(* C6, amended: a file name with both a final extension outside the        *)
(* allowlist and a dangerous extension token is reported as an invalid     *)
(* extension, never as a double extension: the allowlist check runs first. *)
(***************************************************************************)
C6_ExtensionCheckTakesPrecedence ==
  \A u \in Uploads :
    (/\ FilterDecided(u)
     /\ ~FinalExtensionIn(req[u].originalname, Multer(req[u].endpoint).allowedExts)
     /\ DANGEROUS_EXTENSIONS_REGEX(ToLowerCase(req[u].originalname)))
      => /\ Category(err[u]) = "invalid-extension"
         /\ Category(err[u]) # "double-extension"

\* x.php.x was rejected on POST /upload with the invalid-extension message
C6_Witness ==
  \E u \in Uploads :
    /\ FilterDecided(u)
    /\ req[u].originalname = <<"x",".","p","h","p",".","x">>
    /\ req[u].endpoint = V1_UPLOAD
    /\ err[u] = upload.extError

\* u was answered
Answered(u) == pc[u] = "done" /\ response[u].status # 0
Accepted(u) == Answered(u) /\ response[u].status = 200
Rejected(u) == Answered(u) /\ response[u].status = 400

\* the signature check read the staged bytes of u and returned
SignatureCheckRan(u) == typeInfo[u] \notin {NOT_RUN, READ_ERROR}

\* the list of types the route of u accepts as content
AllowedContent(u) == SignatureAllowed(req[u].endpoint)

\* the signature check of u failed: no known format, or a format that is
\* not allowed on the route
SignatureFailed(u) ==
  /\ SignatureCheckRan(u)
  /\ \/ typeInfo[u] = UNDEFINED
     \/ typeInfo[u] \in DetectableMimes \ AllowedContent(u)

\* the file filter rejected the file part of u (filename or declared type)
FilterRejected(u) ==
  /\ FilterDecided(u)
  /\ Category(err[u]) \in {"invalid-extension", "double-extension", "invalid-declared-type"}

(***************************************************************************)
(* C1: an upload is answered 200 only after the signature check has run on *)
(* its stored bytes and detected a type of the route's allowed list.       *)
(***************************************************************************)
C1_AcceptedOnlyAfterSignatureCheck ==
  \A u \in Uploads :
    Accepted(u) =>
      /\ SignatureCheckRan(u)
      /\ response[u].filename \in DOMAIN storage
      /\ typeInfo[u] = fileType(storage[response[u].filename].header)
      /\ typeInfo[u] \in AllowedContent(u)

(***************************************************************************)
(* C2: as claimed, after a failed signature check the staged file is gone  *)
(* from storage when the failure response is sent, in every execution.     *)
(***************************************************************************)
C2_Original_StagedFileGoneAtFailureResponse ==
  \A u \in Uploads :
    (SignatureFailed(u) /\ Rejected(u)) => file[u].filename \notin DOMAIN storage

(***************************************************************************)
(* C2, amended: after a failed signature check the delete of the staged    *)
(* file has been attempted before the failure response is sent; the file   *)
(* is gone from storage when that delete succeeded, and when the delete    *)
(* returned an error the file is still there and the error was logged.     *)
(***************************************************************************)
C2_StagedFileDeleteAttemptedAtFailureResponse ==
  \A u \in Uploads :
    (SignatureFailed(u) /\ Rejected(u)) =>
      LET name == file[u].filename IN
      /\ \E ok \in BOOLEAN : Op("unlink", name, ok) \in touched[u]
      /\ Op("unlink", name, TRUE) \in touched[u] => name \notin DOMAIN storage
      /\ Op("unlink", name, FALSE) \in touched[u] =>
           /\ name \in DOMAIN storage
           /\ UnlinkFailureLog(req[u].endpoint) \in logs[u]

\* test_fake.pdf was staged, failed the check, was deleted and answered 400
C2_Witness ==
  \E u \in Uploads :
    /\ SignatureFailed(u) /\ Rejected(u)
    /\ req[u].originalname = Name_test_fake_pdf
    /\ Op("write", file[u].filename, TRUE) \in touched[u]
    /\ Op("unlink", file[u].filename, TRUE) \in touched[u]
    /\ file[u].filename \notin DOMAIN storage

(***************************************************************************)
(* C3: when the file filter rejects an upload (extension allowlist,        *)
(* double-extension detector or declared type), that upload creates,       *)
(* changes and deletes no file of the storage area: it performs no storage *)
(* operation up to and after its response, and every stored file was       *)
(* written by another upload.                                              *)
(***************************************************************************)
C3_FilterRejectionLeavesStorageAlone ==
  \A u \in Uploads :
    FilterRejected(u) =>
      /\ touched[u] = {}
      /\ ~file[u].present
      /\ \A n \in DOMAIN storage :
           \E v \in Uploads \ {u} : Op("write", n, TRUE) \in touched[v]

\* a rejected double extension was answered while another upload's file is
\* in storage
C3_Witness ==
  \E u \in Uploads :
    /\ FilterRejected(u) /\ Rejected(u)
    /\ req[u].originalname = Name_test_double_php_pdf
    /\ DOMAIN storage # {}

\* the names u wrote into the storage area
Written(u) == { o.name : o \in { x \in touched[u] : x.op = "write" /\ x.ok } }

\* the routes whose multer instance stores on disk
DiskRoutes == { ep \in Endpoints : ~Multer(ep).isImage }

(***************************************************************************)
(* C7: as claimed, every file written to storage is named by a fresh       *)
(* random identifier followed by the lowercased final extension of the     *)
(* original name, an extension of the route's allowlist.                   *)
(***************************************************************************)
C7_Original_PersistedNameKeepsAllowedExtension ==
  \A u \in Uploads : \A n \in Written(u) :
    /\ n.id \in 1..(nextUuid - 1)
    /\ \A v \in Uploads \ {u} : \A m \in Written(v) : m.id # n.id
    /\ \E e \in Multer(req[u].endpoint).allowedExts :
         n.ext = e /\ EndsWith(ToLowerCase(req[u].originalname), e)

(***************************************************************************)
(* C7, amended: every file written to storage is named by a fresh random   *)
(* identifier followed by an extension and by nothing else of the original *)
(* name; on the disk-storage routes the extension is the lowercased final  *)
(* extension of the original name, a member of the route's allowlist, and  *)
(* on the compressing /upload/image route it is the fixed extension .webp. *)
(***************************************************************************)
C7_PersistedNameIsUuidPlusExtension ==
  \A u \in Uploads : \A n \in Written(u) :
    /\ n.id \in 1..(nextUuid - 1)
    /\ \A v \in Uploads \ {u} : \A m \in Written(v) : m.id # n.id
    /\ req[u].endpoint \in DiskRoutes =>
         \E e \in Multer(req[u].endpoint).allowedExts :
           n.ext = e /\ EndsWith(ToLowerCase(req[u].originalname), e)
    /\ req[u].endpoint \notin DiskRoutes => n.ext = Ext_webp

\* PHOTO.JPG was stored on a disk route under <uuid>.jpg and a second
\* upload was stored on the compressing route under <uuid>.webp
C7_Witness ==
  \E u, v \in Uploads :
    /\ req[u].originalname = Name_PHOTO_JPG
    /\ req[u].endpoint = V3_IMAGE
    /\ \E n \in Written(u) : n.ext = Ext_jpg
    /\ req[v].endpoint = V2_IMAGE
    /\ \E n \in Written(v) : n.ext = Ext_webp

C9_DetectedTypeIsTheDetectedType ==
  \A u \in Uploads :
    Accepted(u) =>
      /\ response[u].filename \in DOMAIN storage
      /\ response[u].detectedType = fileType(storage[response[u].filename].header)

\* the extensions a detected type corresponds to
ExtensionsOf(mime) ==
  CASE mime = MIME_PDF  -> {Ext_pdf}
    [] mime = MIME_JPEG -> {Ext_jpg, Ext_jpeg}
    [] mime = MIME_PNG  -> {Ext_png}
    [] mime = MIME_WEBP -> {Ext_webp}
    [] OTHER -> {}

(***************************************************************************)
(* C10: no accepted file has an extension that disagrees with the type     *)
(* detected for its bytes.                                                 *)
(***************************************************************************)
C10_AcceptedExtensionAgreesWithDetectedType ==
  \A u \in Uploads :
    (Accepted(u) /\ response[u].filename \in DOMAIN storage) =>
      response[u].filename.ext
        \in ExtensionsOf(fileType(storage[response[u].filename].header))

(***************************************************************************)
(* Size limit.                                                             *)
(***************************************************************************)
\* the file part of u passed the file filter of its route
PassedFilter(u) ==
  /\ req[u].hasFile
  /\ fileFilter(Multer(req[u].endpoint), req[u].originalname, req[u].mimetype) = NoError

\* the file part of u is longer than limits.fileSize of its route
OverLimit(u) == req[u].hasFile /\ req[u].body.length > Multer(req[u].endpoint).fileSize

\* no I/O operation of u failed: every write and unlink succeeded and the
\* read of the signature check did not throw
NoIOFailure(u) ==
  /\ typeInfo[u] # READ_ERROR
  /\ \A o \in touched[u] : o.ok

C12_NoAcceptedUploadOver2MB ==
  \A u \in Uploads : Accepted(u) => req[u].body.length <= 2 * MB

(***************************************************************************)
(* Concurrent uploads.                                                     *)
(***************************************************************************)
\* the file part of u passes every check of its route: the file filter,
\* the size limit, and content of a type the route allows (which sharp can
\* decode on the compressing route)
ValidUpload(u) ==
  /\ PassedFilter(u)
  /\ ~OverLimit(u)
  /\ fileType(req[u].body.header) \in
       IF req[u].endpoint = V2_PDF THEN allowedOriginpdf ELSE AllowedContent(u)

\* the bytes the route of u stores for it
StoredBody(u) ==
  IF req[u].endpoint = V2_IMAGE THEN compressedBuffer[u]
  ELSE Truncate(req[u].body, Multer(req[u].endpoint).fileSize)

\* a step leaves every file that is in storage before and after it as it was
NoOverwrite ==
  \A n \in DOMAIN storage \cap DOMAIN storage' : storage'[n] = storage[n]

\* a step that writes a file writes it under a name that was not in storage
WritesFreshName ==
  \A u \in Uploads : \A n \in Written(u)' \ Written(u) : n \notin DOMAIN storage

(***************************************************************************)
(* C13: in every interleaving, every valid upload none of whose I/O        *)
(* operations failed is answered 200 with the name of the file it wrote,   *)
(* which holds the bytes it stored; the files written by different uploads *)
(* have different names, so the names returned are pairwise distinct; and  *)
(* no step writes under a name already in storage or changes a file that   *)
(* is there.                                                               *)
(***************************************************************************)
C13_ConcurrentValidUploadsAllAcceptedDistinct ==
  /\ [](\A u \in Uploads :
          /\ (ValidUpload(u) /\ Answered(u) /\ NoIOFailure(u)) =>
               /\ Accepted(u)
               /\ Written(u) = {response[u].filename}
               /\ response[u].filename \in DOMAIN storage
               /\ storage[response[u].filename] = StoredBody(u)
          /\ \A v \in Uploads \ {u} :
               /\ Written(u) \cap Written(v) = {}
               /\ (Accepted(u) /\ Accepted(v)) =>
                    response[u].filename # response[v].filename)
  /\ [][NoOverwrite /\ WritesFreshName]_vars

\* two valid uploads with the same original name, both in flight with
\* their files staged side by side, one of them on its way to acceptance
C13_Witness ==
  \E u, v \in Uploads :
    /\ u # v
    /\ ValidUpload(u) /\ ValidUpload(v)
    /\ req[u].originalname = req[v].originalname
    /\ Accepted(u) /\ Accepted(v)
    /\ response[u].filename # response[v].filename
    /\ {response[u].filename, response[v].filename} \subseteq DOMAIN storage

(***************************************************************************)
(* Independence of uploads.                                                *)
(***************************************************************************)
\* the I/O results u met: a failed read of the signature check, and the
\* kinds of operation that failed
IOResults(u) ==
  [readError |-> typeInfo[u] = READ_ERROR,
   failed |-> { o.op : o \in { x \in touched[u] : ~x.ok } }]

\* u removed its file n
RemovedBy(u, n) == Op("unlink", n, TRUE) \in touched[u]

\* every file a step removes from storage was written by the upload that
\* removes it in this step
RemovesOnlyOwn ==
  \A n \in DOMAIN storage \ DOMAIN storage' :
    \E u \in Uploads :
      /\ n \in Written(u)
      /\ ~RemovedBy(u, n)
      /\ RemovedBy(u, n)'

(***************************************************************************)
(* C14: in every interleaving, a step removes a file only for the upload   *)
(* that wrote it and changes no file; a file an upload wrote stays in      *)
(* storage, with the bytes written, until that same upload removes it; and *)
(* two uploads with the same route, filename, declared type and content    *)
(* that met the same I/O results get the same answer, whatever the other   *)
(* uploads did in between.                                                 *)
(***************************************************************************)
C14_UploadsAreIndependent ==
  /\ [](\A u \in Uploads :
          /\ \A o \in { x \in touched[u] : x.op = "unlink" } : o.name \in Written(u)
          /\ \A n \in Written(u) :
               ~RemovedBy(u, n) => (n \in DOMAIN storage /\ storage[n] = StoredBody(u))
          /\ \A v \in Uploads :
               (/\ Answered(u) /\ Answered(v)
                /\ req[u] = req[v]
                /\ IOResults(u) = IOResults(v)) =>
                 /\ response[u].status = response[v].status
                 /\ response[u].error = response[v].error
                 /\ response[u].detectedType = response[v].detectedType)
  /\ [][RemovesOnlyOwn /\ NoOverwrite]_vars

\* an upload failed verification and removed its file while the file of
\* another upload with the same extension, staged and not yet verified,
\* stayed in storage
C14_Witness ==
  \E u, v \in Uploads :
    /\ u # v
    /\ SignatureFailed(u) /\ Rejected(u)
    /\ \E n \in Written(u) : RemovedBy(u, n) /\ n \notin DOMAIN storage
    /\ pc[v] = "fileTypeFromFile"
    /\ file[v].filename \in DOMAIN storage
    /\ \E n \in Written(u) : n.ext = file[v].filename.ext

(***************************************************************************)
(* One response per upload.                                                *)
(***************************************************************************)
\* a response has been sent for u
ResponseSent(u) == response[u].status # 0

\* a step after the response of u: nothing of u moves, no check, write,
\* delete or log entry is added for it, and the file of an accepted upload
\* stays in storage as it is
QuietAfterResponse(u) ==
  ResponseSent(u) =>
    /\ pc'[u] = pc[u]
    /\ response'[u] = response[u]
    /\ typeInfo'[u] = typeInfo[u]
    /\ touched'[u] = touched[u]
    /\ logs'[u] = logs[u]
    /\ (response[u].status = 200 /\ response[u].filename \in DOMAIN storage) =>
         /\ response[u].filename \in DOMAIN storage'
         /\ storage'[response[u].filename] = storage[response[u].filename]

(***************************************************************************)
(* C15: a request that arrived and is not answered yet always has a next   *)
(* step to take (its handler is never stuck short of a response); the      *)
(* answer is either 200 or 400 and ends the handler; after it the response *)
(* never changes (no second response), the upload performs no further      *)
(* check, write or delete, and the file of an accepted upload is never     *)
(* removed.                                                                *)
(***************************************************************************)
C15_ExactlyOneTerminalOutcome ==
  /\ [](\A u \in Uploads :
          /\ response[u].status \in {0, 200, 400}
          /\ ResponseSent(u) <=> pc[u] = "done"
          /\ pc[u] \notin {"idle", "done"} => ENABLED Step(u))
  /\ [][\A u \in Uploads : QuietAfterResponse(u)]_vars

\* one upload was accepted and its file is in storage, the other was
\* rejected after its signature check failed, and both handlers are done
C15_Witness ==
  \E u, v \in Uploads :
    /\ Accepted(u) /\ SignatureCheckRan(u) /\ response[u].filename \in DOMAIN storage
    /\ Rejected(v) /\ SignatureFailed(v)
    /\ \E n \in Written(v) : Op("unlink", n, TRUE) \in touched[v]

(***************************************************************************)
(* Staged files.                                                           *)
(***************************************************************************)
\* u was answered 200 after the signature check read its stored bytes and
\* detected a type its route allows
VerifiedAccepted(u) ==
  /\ Accepted(u)
  /\ SignatureCheckRan(u)
  /\ typeInfo[u] \in AllowedContent(u)

\* no file u wrote is in storage
Purged(u) == Written(u) # {} /\ Written(u) \cap DOMAIN storage = {}

(***************************************************************************)
(* C16: once bytes of an upload are written to storage, eventually the     *)
(* upload is accepted after a signature check that found an allowed type,  *)
(* or none of its files is in storage any more (or one of its own I/O      *)
(* operations failed), when every pending operation completes.             *)
(***************************************************************************)
C16_StagedEventuallyVerifiedOrPurged ==
  \A u \in Uploads :
    (Written(u) # {}) ~> (VerifiedAccepted(u) \/ Purged(u) \/ ~NoIOFailure(u))

(***************************************************************************)
(* Failed verification.                                                    *)
(***************************************************************************)
\* the signature check of u failed: unknown or disallowed type, or the
\* read of the staged file threw
VerificationFailed(u) == SignatureFailed(u) \/ typeInfo[u] = READ_ERROR

\* the fs.unlink of the staged file of u has returned, with or without error
UnlinkCompleted(u) ==
  \E ok \in BOOLEAN : Op("unlink", file[u].filename, ok) \in touched[u]

(***************************************************************************)
(* C17: while the delete of a staged file that failed verification has not *)
(* returned, no response has been sent for the upload; and the step that   *)
(* sends the failure response is the continuation of that delete, taken    *)
(* when fs.unlink has returned, with success or with an error.             *)
(***************************************************************************)
C17_DeleteCompletedBeforeFailureResponse ==
  /\ [](\A u \in Uploads :
          (VerificationFailed(u) /\ ~UnlinkCompleted(u)) => ~ResponseSent(u))
  /\ [][\A u \in Uploads :
          (VerificationFailed(u)' /\ ~ResponseSent(u) /\ ResponseSent(u)') =>
            /\ pc[u] = "unlink"
            /\ UnlinkCompleted(u)'
            /\ response'[u].status = 400]_vars

\* two failed verifications answered, one after a delete that succeeded,
\* one after a delete that returned an error
C17_Witness ==
  \E u, v \in Uploads :
    /\ VerificationFailed(u) /\ Rejected(u)
    /\ Op("unlink", file[u].filename, TRUE) \in touched[u]
    /\ VerificationFailed(v) /\ Rejected(v)
    /\ Op("unlink", file[v].filename, FALSE) \in touched[v]
    /\ file[v].filename \in DOMAIN storage

(***************************************************************************)
(* Failure responses.                                                      *)
(***************************************************************************)
\* the messages of the validation categories, as the routes word them:
\* invalid extension, double extension, invalid declared type, size
\* exceeded, missing file, signature mismatch and undeterminable signature
\* (raw, mapped by parseErrorMessage, or prefixed by handleUpload)
GenericMessages ==
  LET signature == {ERR_UNDETERMINED} \cup { MagicByteError(m) : m \in DetectableMimes }
  IN  { Multer(ep).extError : ep \in Endpoints }
        \cup {ERR_DOUBLE_EXT, ERR_MIME, ERR_TOO_LARGE, ERR_NO_FILE}
        \cup signature
        \cup { parseErrorMessage(m) : m \in signature }
        \cup { "Security validation failed: " \o m : m \in signature }

(***************************************************************************)
(* C18: the error text of every 400 response is one of the messages of the *)
(* validation categories; the message of an internal exception (a read or  *)
(* write error, a diagnostic of the image library) is never in a response. *)
(***************************************************************************)
C18_FailureResponsesAreGeneric ==
  \A u \in Uploads : Rejected(u) => response[u].error \in GenericMessages

\* a system failure met u: the read of its staged file threw, or the
\* delete of its rejected file returned an error
SystemFailure(u) ==
  \/ typeInfo[u] = READ_ERROR
  \/ VerificationFailed(u) /\ Op("unlink", file[u].filename, FALSE) \in touched[u]

(***************************************************************************)
(* C19: an upload that met a system failure (read error of the signature   *)
(* check, failed delete of the rejected file) is not answered as an        *)
(* ordinary response, neither 200 nor the 400 of a validation rejection.   *)
(***************************************************************************)
C19_SystemFailureReportedDistinctly ==
  \A u \in Uploads :
    (Answered(u) /\ SystemFailure(u)) => response[u].status \notin {200, 400}

(***************************************************************************)
(* C20: whenever the delete of a staged file that failed verification has  *)
(* returned an error, the log of that request holds the deletion-failure   *)
(* entry of its handler, from the step in which the delete returned and so *)
(* before the response, on POST /upload, in validateFile and in            *)
(* handleUpload.                                                           *)
(***************************************************************************)
C20_DeletionFailureIsLogged ==
  \A u \in Uploads :
    \A o \in { x \in touched[u] : x.op = "unlink" /\ ~x.ok } :
      VerificationFailed(u) =>
        /\ UnlinkFailureLog(req[u].endpoint) \in logs[u]
        /\ ValidationFailedLog(req[u].endpoint) \in logs[u]

\* the delete failed in validateFile (variant 2) and in another handler
\* variant, and both failures are in the log
C20_Witness ==
  \E u, v \in Uploads :
    /\ req[u].endpoint = V2_IMAGE /\ req[v].endpoint \in {V1_UPLOAD, V3_IMAGE, V3_PDF}
    /\ VerificationFailed(u) /\ VerificationFailed(v)
    /\ Op("unlink", file[u].filename, FALSE) \in touched[u]
    /\ Op("unlink", file[v].filename, FALSE) \in touched[v]
    /\ UnlinkFailureLog(V2_IMAGE) \in logs[u]
    /\ UnlinkFailureLog(req[v].endpoint) \in logs[v]
    /\ Answered(u) /\ Answered(v)

UploadsTestFakePdf(u) ==
  /\ req[u].hasFile
  /\ req[u].originalname = Name_test_fake_pdf
  /\ req[u].mimetype = MIME_PDF
  /\ req[u].body = Body(HDR_TEXT, 36)

\* the messages of the magic-byte-mismatch category, as the routes word
\* them: raw, mapped by parseErrorMessage, or prefixed by handleUpload
MagicByteMismatchMessages ==
  LET raw == { MagicByteError(m) : m \in DetectableMimes \cup {UNDEFINED} }
  IN  raw \cup { parseErrorMessage(m) : m \in raw }
          \cup { "Security validation failed: " \o m : m \in raw }

(***************************************************************************)
(* C22: test_fake.pdf sent to a route that checks signatures and lets the  *)
(* name through is answered 400 with a message of the magic-byte-mismatch  *)
(* category ("... Magic-byte check failed ...").                           *)
(***************************************************************************)
C22_TestFakePdfIsMagicByteMismatch ==
  \A u \in Uploads :
    (/\ Answered(u) /\ UploadsTestFakePdf(u) /\ PassedFilter(u)
     /\ req[u].endpoint \in VerifyingRoutes
     /\ NoIOFailure(u)) =>
      /\ Rejected(u)
      /\ response[u].error \in MagicByteMismatchMessages

(***************************************************************************)
(* Disclosure of storage names.                                            *)
(***************************************************************************)
\* the response of u carries a storage name: in its filename field, or in
\* an error text that quotes the path of the file
DisclosesStorageName(u) ==
  \/ response[u].filename # NoName
  \/ response[u].error = ERR_WRITE

(***************************************************************************)
(* C23: a response carries a storage name only when it is a 200 response   *)
(* sent after the signature check of that file found an allowed type; no   *)
(* 400 response and no response of an unverified upload carries one.       *)
(***************************************************************************)
C23_StorageNameOnlyAfterVerification ==
  \A u \in Uploads :
    (ResponseSent(u) /\ DisclosesStorageName(u)) =>
      /\ VerifiedAccepted(u)
      /\ response[u].filename = file[u].filename

(***************************************************************************)
(* Letter case and components of the filename.                             *)
(***************************************************************************)
\* the name has a letter that toLowerCase() changes
HasUpperCase(name) == \E i \in 1..Len(name) : name[i] \in DOMAIN LowerOf

(***************************************************************************)
(* C24: the decision of the file filter on a filename is its decision on   *)
(* the lowercased filename, for every route and declared type, and the     *)
(* extension of the name multer's storage builds has no uppercase letter.  *)
(***************************************************************************)
C24_FilterIsCaseInsensitive ==
  \A u \in Uploads :
    FilterDecided(u) =>
      LET cfg == Multer(req[u].endpoint) IN
      /\ err[u] = fileFilter(cfg, ToLowerCase(req[u].originalname), req[u].mimetype)
      /\ ~HasUpperCase(DiskFilename(nextUuid, req[u].originalname).ext)
      /\ DiskFilename(nextUuid, req[u].originalname).ext
           = DiskFilename(nextUuid, ToLowerCase(req[u].originalname)).ext

\* x.PDF was let through on a PDF route, and its stored extension is .pdf
C24_Witness ==
  \E u \in Uploads :
    /\ FilterDecided(u)
    /\ req[u].originalname = <<"x", ".", "P", "D", "F">>
    /\ err[u] = NoError
    /\ DiskFilename(nextUuid, req[u].originalname).ext = Ext_pdf

\* the position of the first "." after position i, or one past the end
NextDot(s, i) ==
  IF \E j \in (i + 1)..Len(s) : s[j] = "."
  THEN CHOOSE j \in (i + 1)..Len(s) :
         /\ s[j] = "."
         /\ \A k \in (i + 1)..(j - 1) : s[k] # "."
  ELSE Len(s) + 1

\* the dot-separated components of s after the first one
LaterComponents(s) ==
  { SubSeq(s, i + 1, NextDot(s, i) - 1) : i \in { d \in 1..Len(s) : s[d] = "." } }

\* a component holds a dangerous token without being one
TokenInsideLongerComponent(s) ==
  \E c \in LaterComponents(s) \cup {SubSeq(s, 1, NextDot(s, 0) - 1)} :
    /\ c \notin DangerousTokens
    /\ \E tok \in DangerousTokens, i \in 1..Len(c) :
         i + Len(tok) - 1 <= Len(c) /\ SubSeq(c, i, i + Len(tok) - 1) = tok

(***************************************************************************)
(* C25: the filter answers "double extension" exactly when the final       *)
(* extension of the lowercased name is allowed on the route and some       *)
(* dot-separated component after the first is one of the dangerous tokens; *)
(* the detector itself fires on the lowercased name exactly when such a    *)
(* component exists.                                                       *)
(***************************************************************************)
C25_DetectorFiresOnExactComponents ==
  \A u \in Uploads :
    FilterDecided(u) =>
      LET cfg == Multer(req[u].endpoint)
          name == ToLowerCase(req[u].originalname)
          fires == \E c \in LaterComponents(name) : c \in DangerousTokens
      IN  /\ DANGEROUS_EXTENSIONS_REGEX(name) <=> fires
          /\ err[u] = ERR_DOUBLE_EXT <=> (ExtName(name) \in cfg.allowedExts /\ fires)

\* x.php55.pdf holds "php" only inside a longer component and was let
\* through on a PDF route
C25_Witness ==
  \E u \in Uploads :
    /\ FilterDecided(u)
    /\ req[u].originalname = <<"x", ".", "p", "h", "p", "5", "5", ".", "p", "d", "f">>
    /\ TokenInsideLongerComponent(ToLowerCase(req[u].originalname))
    /\ err[u] = NoError

(***************************************************************************)
(* Compression to the target size.                                         *)
(***************************************************************************)
(***************************************************************************)
(* C26: every file the compressing /upload/image route of variant 2 has    *)
(* written is at most targetSize (300 KB) long.                            *)
(***************************************************************************)
C26_StoredImageWithinTargetSize ==
  \A u \in Uploads :
    req[u].endpoint = V2_IMAGE =>
      \A n \in Written(u) \cap DOMAIN storage :
        storage[n].length <= TargetSize(V2_IMAGE)

\* the qualities the loop transcodes with
AttemptQualities == {80, 70, 60, 50, 40, 30, 20}

\* the number of transcoding attempts made so far for u
Attempts(u) == IF quality[u] = 0 THEN 0 ELSE (80 - quality[u]) \div 10

\* a step of u that transcodes
Transcodes(u) == pc[u] = "sharp" /\ quality'[u] # quality[u]

(***************************************************************************)
(* C27: the compression loop makes at most 7 attempts, with quality 80,    *)
(* 70, ..., 20 in this order; an attempt is made only while the current    *)
(* result is over the target size, it encodes the uploaded buffer, which   *)
(* stays as it was, and the loop is left for the write exactly when the    *)
(* result is within the target size or quality has reached 10.             *)
(***************************************************************************)
C27_CompressionLoopBounded ==
  /\ [](\A u \in Uploads :
          /\ quality[u] \in {0, 10} \cup AttemptQualities
          /\ Attempts(u) <= 7
          /\ pc[u] = "sharp" =>
               /\ quality[u] \in AttemptQualities
               /\ compressedBuffer[u].length > TargetSize(V2_IMAGE)
          /\ pc[u] = "writeFile" =>
               \/ compressedBuffer[u].length <= TargetSize(V2_IMAGE)
               \/ quality[u] = 10)
  /\ [][\A u \in Uploads :
          Transcodes(u) =>
            /\ quality'[u] = quality[u] - 10
            /\ Attempts(u)' = Attempts(u) + 1
            /\ file'[u] = file[u]
            /\ SharpSupported(file[u].buffer.header)
            /\ compressedBuffer'[u].header = HDR_WEBP
            /\ pc'[u] = IF \/ compressedBuffer'[u].length <= TargetSize(V2_IMAGE)
                           \/ quality'[u] = 10
                        THEN "writeFile" ELSE "sharp"]_vars

\* all 7 attempts were made and the result is still over the target size
C27_Witness ==
  \E u \in Uploads :
    /\ pc[u] = "writeFile"
    /\ Attempts(u) = 7
    /\ quality[u] = 10
    /\ compressedBuffer[u].length > TargetSize(V2_IMAGE)

(***************************************************************************)
(* C28: a request without a file part is answered 400 'No file uploaded.'; *)
(* from its arrival on the signature check never runs for it and it        *)
(* performs no write, read or delete in the storage area.                  *)
(***************************************************************************)
C28_NoFileRejectedWithoutStorageAccess ==
  \A u \in Uploads :
    (pc[u] # "idle" /\ ~req[u].hasFile) =>
      /\ typeInfo[u] = NOT_RUN
      /\ touched[u] = {}
      /\ pc[u] \in {"callback", "done"}
      /\ ~Accepted(u)
      /\ Answered(u) =>
           /\ Rejected(u)
           /\ response[u].error = ERR_NO_FILE

\* requests without a file were answered on a route of variant 2 and on a
\* route of another variant, while storage holds files of no upload
C28_Witness ==
  \E u, v \in Uploads :
    /\ ~req[u].hasFile /\ ~req[v].hasFile
    /\ req[u].endpoint \in {V2_IMAGE, V2_PDF}
    /\ req[v].endpoint \in {V1_UPLOAD, V3_IMAGE, V3_PDF}
    /\ Rejected(u) /\ response[u].error = ERR_NO_FILE
    /\ Rejected(v) /\ response[v].error = ERR_NO_FILE
    /\ storage = <<>>

(***************************************************************************)
(* Storage at rest.                                                        *)
(***************************************************************************)
\* no request is between its arrival and its response
AllAnswered == \A u \in Uploads : pc[u] \in {"idle", "done"}

\* the storage names of the accepted responses
AcceptedNames == { response[u].filename : u \in { v \in Uploads : Accepted(v) } }

(***************************************************************************)
(* C29: when no I/O operation has failed and every request that arrived    *)
(* has been answered, the files in storage are exactly the files named in  *)
(* the 200 responses, each with the size its response reports, and no file *)
(* written by a rejected upload is among them.                             *)
(***************************************************************************)
C29_StorageEqualsAcceptedFiles ==
  (AllAnswered /\ \A u \in Uploads : NoIOFailure(u)) =>
    /\ DOMAIN storage = AcceptedNames
    /\ \A u \in Uploads :
         /\ Accepted(u) =>
              /\ response[u].filename \in DOMAIN storage
              /\ storage[response[u].filename].length = response[u].size
         /\ Rejected(u) => Written(u) \cap DOMAIN storage = {}

\* one upload accepted, one rejected after it had written its file, no I/O
\* failure: storage holds the accepted file alone
C29_Witness ==
  /\ AllAnswered
  /\ \A u \in Uploads : NoIOFailure(u)
  /\ \E u, v \in Uploads :
       /\ Accepted(u) /\ Rejected(v) /\ Written(v) # {}
       /\ DOMAIN storage = {response[u].filename}

====
